---- MODULE Spec2Model ----
(***************************************************************************)
(* A model of src/bot.py: the coin-counting Telegram bot.                  *)
(*                                                                         *)
(*   - calculate_iou and draw_detections (the overlap resolver, the        *)
(*     aggregator and the renderer) are modelled statement by statement;   *)
(*     SpecDraw runs draw_detections' loop one iteration per step.         *)
(*   - handle_photo is modelled as the sequence of its atomic segments,    *)
(*     one per await; Spec follows one update handled alone, SpecConc lets *)
(*     two handlers interleave at their awaits.                            *)
(*                                                                         *)
(* Numbers.  Pixel coordinates are kept in half-pixels (every coordinate   *)
(* times two) so that  x - width/2  is an exact integer; areas are then    *)
(* four times the pixel areas and area ratios are unchanged.  Money is     *)
(* kept in hundredths: the float 1.0 is the integer 100.                   *)
(***************************************************************************)
EXTENDS Integers, Sequences, FiniteSets, TLC

\* Longest detection list the detector returns for one photo.
MaxDet == 3

(***************************************************************************)
(* Python values                                                           *)
(***************************************************************************)

\* Python's None where a float may stand (custom_value, the estimate).
None == [kind |-> "None", h |-> 0]

\* update.message.caption of a photo sent without caption (None).
NoCaption == "None"

Fin(h) == [kind |-> "fin", h |-> h]
Inf == [kind |-> "inf", h |-> 0]
NaN == [kind |-> "nan", h |-> 0]
ValueError == [kind |-> "ValueError", h |-> 0]

\* str.strip() on the strings the model uses.
Strip(s) ==
  CASE s = " 0.5 " -> "0.5"
    [] OTHER -> s

\* float(s) on the strings the model uses, in hundredths; a string float()
\* rejects gives ValueError.
PyFloat(s) ==
  CASE s = "100" -> Fin(10000)
    [] s = "200" -> Fin(20000)
    [] s = "50" -> Fin(5000)
    [] s = "0.10" -> Fin(10)
    [] s = "0.5" -> Fin(50)
    [] s = " 0.5 " -> Fin(50)
    [] s = "0" -> Fin(0)
    [] s = "inf" -> Inf
    [] s = "nan" -> NaN
    [] OTHER -> ValueError

\* bool(v) of a float or None: None and 0.0 are false, inf and nan are true.
Truthy(v) ==
  /\ v # None
  /\ ~(v.kind = "fin" /\ v.h = 0)

\* n * v for an int n >= 0 and a float v.
FloatTimes(n, v) ==
  CASE v.kind = "fin" -> Fin(n * v.h)
    [] v.kind = "inf" -> IF n = 0 THEN NaN ELSE Inf
    [] OTHER -> NaN

Max(a, b) == IF a >= b THEN a ELSE b
Min(a, b) == IF a <= b THEN a ELSE b

(***************************************************************************)
(* Detections                                                              *)
(***************************************************************************)

Det(x, y, w, h, c, conf) ==
  [x |-> x, y |-> y, width |-> w, height |-> h, class |-> c, confidence |-> conf]

\* The three detections of the specification's scenario: two near-coincident
\* 1 euro detections and one 2 euro detection far away.
DetA == Det(100, 100, 40, 40, "100", 90)
DetDup == Det(102, 101, 40, 40, "100", 80)
DetFar == Det(300, 300, 40, 40, "200", 95)
\* A row of shifted boxes: DetA/DetMid and DetMid/DetEnd overlap by more than
\* half, DetA/DetEnd by a quarter.
DetMid == Det(112, 100, 40, 40, "100", 85)
DetEnd == Det(124, 100, 40, 40, "100", 70)
\* Malformed records: a class float() rejects, and a box of width zero.
DetBadClass == Det(200, 100, 40, 40, "abc", 60)
DetFlat == Det(200, 300, 0, 40, "50", 50)

Detections == {DetA, DetDup, DetFar, DetMid, DetEnd, DetBadClass, DetFlat}

SeqsUpTo(S, n) == UNION {[1..k -> S] : k \in 0..n}

DetLists == SeqsUpTo(Detections, MaxDet)

(***************************************************************************)
(* calculate_iou                                                           *)
(***************************************************************************)

\* box = [x, y, x + width, y + height] with x = detection["x"] - width/2,
\* in half-pixels.
BoxOf(d) ==
  LET x == 2 * d.x - d.width
      y == 2 * d.y - d.height
  IN  <<x, y, x + 2 * d.width, y + 2 * d.height>>

\* The quotient inter_area / union_area as the pair (num, den);
\* a zero union_area raises ZeroDivisionError.
calculate_iou(box1, box2) ==
  LET xi1 == Max(box1[1], box2[1])
      yi1 == Max(box1[2], box2[2])
      xi2 == Min(box1[3], box2[3])
      yi2 == Min(box1[4], box2[4])
      inter_area == Max(0, xi2 - xi1) * Max(0, yi2 - yi1)
      box1_area == (box1[3] - box1[1]) * (box1[4] - box1[2])
      box2_area == (box2[3] - box2[1]) * (box2[4] - box2[2])
      union_area == box1_area + box2_area - inter_area
  IN  IF union_area = 0
        THEN [exc |-> "ZeroDivisionError", num |-> inter_area, den |-> 0]
        ELSE [exc |-> "", num |-> inter_area, den |-> union_area]

\* The mutated comparison: the quotient is taken with floor division
\* (inter_area // union_area), so only a quotient of at least 1 exceeds 0.5.
OverHalfFloorDiv(iou) ==
  \/ iou.den > 0 /\ iou.num >= iou.den
  \/ iou.den < 0 /\ iou.num > 0

\* iou > 0.5 for a quotient that was computed.
OverHalf(iou) ==
  \/ iou.den > 0 /\ 2 * iou.num > iou.den
  \/ iou.den < 0 /\ 2 * iou.num < iou.den

(***************************************************************************)
(* draw_detections                                                         *)
(***************************************************************************)

\* The inner loop "for detected_box in detected_boxes": the index of the
\* first box at which the loop stops (iou > 0.5, or calculate_iou raises),
\* 0 when it runs to the end.
RECURSIVE FirstStop(_, _, _)
FirstStop(box, detected_boxes, k) ==
  IF k > Len(detected_boxes) THEN 0
  ELSE LET iou == calculate_iou(box, detected_boxes[k])
       IN  IF iou.exc # "" \/ OverHalf(iou) THEN k
           ELSE FirstStop(box, detected_boxes, k + 1)

\* The mutated inner loop: only the most recently accepted box is compared.
OverlapCheckLastOnly(box, detected_boxes) ==
  LET n == Len(detected_boxes)
  IN  IF n = 0 THEN [exc |-> "", overlap |-> FALSE]
      ELSE LET iou == calculate_iou(box, detected_boxes[n])
           IN  IF iou.exc # "" THEN [exc |-> iou.exc, overlap |-> FALSE]
               ELSE [exc |-> "", overlap |-> OverHalf(iou)]

\* Lines 152-158: overlap, or the exception calculate_iou raised.
OverlapCheck(box, detected_boxes) ==
  LET k == FirstStop(box, detected_boxes, 1)
  IN  IF k = 0 THEN [exc |-> "", overlap |-> FALSE]
      ELSE LET iou == calculate_iou(box, detected_boxes[k])
           IN  IF iou.exc # "" THEN [exc |-> iou.exc, overlap |-> FALSE]
               ELSE [exc |-> "", overlap |-> TRUE]

\* The mutated count update: the count is set to 1 whether or not the value
\* is already a key.
CountCoinForgetful(coin_counts, value) ==
  [v \in DOMAIN coin_counts \cup {value} |->
     IF v = value THEN 1 ELSE coin_counts[v]]

\* Lines 181-185: coin_counts[value] += 1, or = 1 for a new key.
CountCoin(coin_counts, value) ==
  [v \in DOMAIN coin_counts \cup {value} |->
     IF v = value
       THEN (IF value \in DOMAIN coin_counts THEN coin_counts[value] + 1 ELSE 1)
       ELSE coin_counts[v]]

\* The locals of draw_detections at line 141-143, before the loop.  drawn is
\* what has been drawn on the image; kept lists the input positions of the
\* detections whose box was appended to detected_boxes, and seen counts the
\* detections whose overlap check has finished.
DrawStart ==
  [total_coins |-> 0, detected_boxes |-> <<>>, coin_counts |-> <<>>,
   drawn |-> <<>>, kept |-> <<>>, seen |-> 0, exc |-> ""]

\* One iteration of the loop (lines 145-185) for the detection at input
\* position pos.
DrawIter(st, detection, pos) ==
  LET box == BoxOf(detection)
      chk == OverlapCheck(box, st.detected_boxes)
      cls == PyFloat(detection.class)
      value == cls.h \div 100
  IN  IF chk.exc # "" THEN [st EXCEPT !.exc = chk.exc]
      ELSE IF chk.overlap THEN [st EXCEPT !.seen = pos]
      ELSE IF cls.kind = "ValueError"
        THEN \* the box is appended and outlined before float() raises
             [st EXCEPT !.detected_boxes = Append(@, box),
                        !.kept = Append(@, pos),
                        !.seen = pos,
                        !.drawn = Append(@, [box |-> box, label |-> <<>>,
                                             number |-> 0]),
                        !.exc = "ValueError"]
        ELSE [st EXCEPT !.detected_boxes = Append(@, box),
                        !.kept = Append(@, pos),
                        !.seen = pos,
                        !.drawn = Append(@, [box |-> box,
                                             label |-> <<value, detection.confidence>>,
                                             number |-> st.total_coins + 1]),
                        !.total_coins = @ + 1,
                        !.coin_counts = CountCoin(@, value)]

\* The whole loop over detections, stopping at the first exception.
RECURSIVE DrawLoop(_, _, _)
DrawLoop(st, detections, pos) ==
  IF pos > Len(detections) \/ st.exc # "" THEN st
  ELSE DrawLoop(DrawIter(st, detections[pos], pos), detections, pos + 1)

\* draw_detections(image_path, detections): the locals at its return or at
\* the exception that leaves it.
draw_detections(detections) == DrawLoop(DrawStart, detections, 1)

RECURSIVE SumCounts(_)
SumCounts(coin_counts) ==
  IF DOMAIN coin_counts = {} THEN 0
  ELSE LET v == CHOOSE w \in DOMAIN coin_counts : TRUE
           rest == [w \in DOMAIN coin_counts \ {v} |-> coin_counts[w]]
       IN  coin_counts[v] + SumCounts(rest)

\* sum(value * count for value, count in coin_counts.items())
RECURSIVE SumValues(_)
SumValues(coin_counts) ==
  IF DOMAIN coin_counts = {} THEN 0
  ELSE LET v == CHOOSE w \in DOMAIN coin_counts : TRUE
           rest == [w \in DOMAIN coin_counts \ {v} |-> coin_counts[w]]
       IN  v * coin_counts[v] + SumValues(rest)

(***************************************************************************)
(* State                                                                   *)
(***************************************************************************)

\* The updates (photo messages) the bot is sent.  The photo of update r is
\* identified with r; the detector's answer for it is dets[r].
Requests == {"r1", "r2"}

\* The two fixed file names every handler uses.
PhotoFile == "photo.jpg"
AnnotatedFile == "photo_with_detections.jpg"
FileNames == {PhotoFile, AnnotatedFile}

\* An image: the photo it shows (the update that sent it) and what has been
\* drawn on it.  Absent stands for a file that does not exist, and for the
\* upload of a handler that has read no file.
Image(photo, drawn) == [src |-> photo, drawn |-> drawn]
Absent == Image("absent", <<>>)

\* update.message.caption: None, or the text sent with the photo.
Captions == {NoCaption, "", "0.10", " 0.5 ", "0", "abc", "inf", "nan"}

VARIABLES
  \* draw_detections run on its own (SpecDraw)
  detections,   \* the argument
  loc,          \* the locals: total_coins, detected_boxes, coin_counts, ...
  dpc,          \* "loop", "saved" (returned) or "raised"
  \* handle_photo (Spec, SpecConc), one coroutine per update
  pc,           \* the await each handler is suspended at
  caption,      \* update.message.caption
  dets,         \* result["predictions"] the detector gives for r's photo
  custom_value, \* the local custom_value
  res,          \* the locals total_coins, coin_counts, total_value
  upload,       \* what was read from the file handed to send_photo
  outbox,       \* the messages delivered to the user, in order
  err,          \* the exception caught at line 98 ("" when none)
  crash,        \* the await whose exception left the handler ("" when none)
  created,      \* the files the handler has written
  files         \* the working directory: file name -> content, or Absent

dvars == <<detections, loc, dpc>>
hvars == <<pc, caption, dets, custom_value, res, upload, outbox, err, crash,
           created, files>>
vars == <<detections, loc, dpc, pc, caption, dets, custom_value, res, upload,
          outbox, err, crash, created, files>>

NoResult == [total_coins |-> 0, coin_counts |-> <<>>, total_value |-> 0]

\* No update has been dispatched and the working directory is empty.
InitHandlers ==
  /\ pc = [r \in Requests |-> "idle"]
  /\ caption = [r \in Requests |-> NoCaption]
  /\ dets = [r \in Requests |-> <<>>]
  /\ custom_value = [r \in Requests |-> None]
  /\ res = [r \in Requests |-> NoResult]
  /\ upload = [r \in Requests |-> Absent]
  /\ outbox = [r \in Requests |-> <<>>]
  /\ err = [r \in Requests |-> ""]
  /\ crash = [r \in Requests |-> ""]
  /\ created = [r \in Requests |-> {}]
  /\ files = [f \in FileNames |-> Absent]

(***************************************************************************)
(* SpecDraw: draw_detections, one loop iteration per step                  *)
(***************************************************************************)

InitDraw ==
  /\ detections \in DetLists
  /\ loc = DrawStart
  /\ dpc = "loop"
  /\ InitHandlers

\* One iteration of "for idx, detection in enumerate(detections)".
Iterate ==
  /\ dpc = "loop"
  /\ loc.seen < Len(detections)
  /\ LET nxt == DrawIter(loc, detections[loc.seen + 1], loc.seen + 1)
     IN  /\ loc' = nxt
         /\ dpc' = IF nxt.exc # "" THEN "raised" ELSE "loop"
  /\ UNCHANGED detections
  /\ UNCHANGED hvars

\* image.save(...); return total_coins, coin_counts
Save ==
  /\ dpc = "loop"
  /\ loc.seen = Len(detections)
  /\ dpc' = "saved"
  /\ UNCHANGED <<detections, loc>>
  /\ UNCHANGED hvars

NextDraw == Iterate \/ Save

SpecDraw == InitDraw /\ [][NextDraw]_vars

(***************************************************************************)
(* handle_photo                                                            *)
(***************************************************************************)

\* An exception raised at the await the handler is suspended at, outside the
\* try block: it leaves the handler.
Escapes(r, where) ==
  /\ pc' = [pc EXCEPT ![r] = "done"]
  /\ crash' = [crash EXCEPT ![r] = where]

\* An exception raised inside the try block (lines 66-96): caught at line 98.
Caught(r, e) ==
  /\ pc' = [pc EXCEPT ![r] = "notice"]
  /\ err' = [err EXCEPT ![r] = e]

Deliver(r, m) == outbox' = [outbox EXCEPT ![r] = Append(@, m)]

\* The mutated caption handling: the ValueError is swallowed without a reply.
ParseCaptionSilent(c) ==
  IF c = NoCaption \/ c = "" THEN [custom_value |-> None, warn |-> FALSE]
  ELSE LET v == PyFloat(Strip(c))
       IN  IF v.kind = "ValueError"
             THEN [custom_value |-> None, warn |-> FALSE]
             ELSE [custom_value |-> v, warn |-> FALSE]

\* Lines 50-58: custom_value, and whether the warning is to be sent.
ParseCaption(c) ==
  IF c = NoCaption \/ c = "" THEN [custom_value |-> None, warn |-> FALSE]
  ELSE LET v == PyFloat(Strip(c))
       IN  IF v.kind = "ValueError"
             THEN [custom_value |-> None, warn |-> TRUE]
             ELSE [custom_value |-> v, warn |-> FALSE]

\* Line 72: sum([float(detection['class']) / 100 for detection in detections]),
\* over every detection of the list; ValueError when a class does not parse.
RECURSIVE TotalValue(_)
TotalValue(ds) ==
  IF ds = <<>> THEN Fin(0)
  ELSE LET v == PyFloat(Head(ds).class)
           rest == TotalValue(Tail(ds))
       IN  IF v.kind = "ValueError" \/ rest.kind = "ValueError" THEN ValueError
           ELSE Fin(v.h \div 100 + rest.h)

\* Lines 78-93: the text of the final reply.
Summary(r) ==
  [type |-> "summary",
   total_value |-> res[r].total_value,
   total_coins |-> res[r].total_coins,
   coin_counts |-> res[r].coin_counts,
   estimate |-> IF Truthy(custom_value[r])
                  THEN FloatTimes(res[r].total_coins, custom_value[r])
                  ELSE None]

\* The dispatcher calls handle_photo for an update with caption c whose photo
\* the detector answers with d.
Dispatch(r, c, d) ==
  /\ pc[r] = "idle"
  /\ pc' = [pc EXCEPT ![r] = "ack"]
  /\ caption' = [caption EXCEPT ![r] = c]
  /\ dets' = [dets EXCEPT ![r] = d]
  /\ UNCHANGED <<custom_value, res, upload, outbox, err, crash, created, files>>

\* Line 44: await reply_text("Image received! Processing it...").
Ack(r) ==
  /\ pc[r] = "ack"
  /\ \/ /\ Deliver(r, [type |-> "ack"])
        /\ pc' = [pc EXCEPT ![r] = "get_file"]
        /\ UNCHANGED crash
     \/ /\ Escapes(r, "ack")
        /\ UNCHANGED outbox
  /\ UNCHANGED <<caption, dets, custom_value, res, upload, err, created, files>>

\* Lines 46-55: await get_file(), then the caption is parsed.
GetFile(r) ==
  /\ pc[r] = "get_file"
  /\ \/ /\ custom_value' = [custom_value EXCEPT ![r] = ParseCaption(caption[r]).custom_value]
        /\ pc' = [pc EXCEPT ![r] = IF ParseCaption(caption[r]).warn
                                     THEN "warn" ELSE "download"]
        /\ UNCHANGED crash
     \/ /\ Escapes(r, "get_file")
        /\ UNCHANGED custom_value
  /\ UNCHANGED <<caption, dets, res, upload, outbox, err, created, files>>

\* Lines 56-58: await reply_text('Invalid value in description. ...').
Warn(r) ==
  /\ pc[r] = "warn"
  /\ \/ /\ Deliver(r, [type |-> "warning"])
        /\ pc' = [pc EXCEPT ![r] = "download"]
        /\ UNCHANGED crash
     \/ /\ Escapes(r, "warn")
        /\ UNCHANGED outbox
  /\ UNCHANGED <<caption, dets, custom_value, res, upload, err, created, files>>

\* Lines 60-63: await client.get(photo_path), then the content is written to
\* photo.jpg and the handler awaits the client's __aexit__.
Download(r) ==
  /\ pc[r] = "download"
  /\ \/ /\ files' = [files EXCEPT ![PhotoFile] = Image(r, <<>>)]
        /\ created' = [created EXCEPT ![r] = @ \cup {PhotoFile}]
        /\ pc' = [pc EXCEPT ![r] = "infer"]
        /\ UNCHANGED crash
     \/ /\ Escapes(r, "download")
        /\ UNCHANGED <<files, created>>
  /\ UNCHANGED <<caption, dets, custom_value, res, upload, outbox, err>>

\* Lines 66-75, up to the await of send_photo: CLIENT.infer on photo.jpg,
\* draw_detections, total_value, and the annotated file is opened and read.
Infer(r) ==
  /\ pc[r] = "infer"
  /\ LET photo == files[PhotoFile].src
         detected == dets[photo]
         st == draw_detections(detected)
         total_value == TotalValue(detected)
         image == Image(photo, st.drawn)
     IN  \/ \* CLIENT.infer raises
            /\ Caught(r, "infer")
            /\ UNCHANGED <<res, upload, created, files>>
         \/ \* Image.open, a draw call or image.save raises
            /\ Caught(r, "render")
            /\ UNCHANGED <<res, upload, created, files>>
         \/ \* calculate_iou or float() raises inside draw_detections
            /\ st.exc # ""
            /\ Caught(r, st.exc)
            /\ UNCHANGED <<res, upload, created, files>>
         \/ \* float() raises at line 72, after the annotated file was saved
            /\ st.exc = ""
            /\ total_value.kind = "ValueError"
            /\ Caught(r, "ValueError")
            /\ files' = [files EXCEPT ![AnnotatedFile] = image]
            /\ created' = [created EXCEPT ![r] = @ \cup {AnnotatedFile}]
            /\ UNCHANGED <<res, upload>>
         \/ /\ st.exc = ""
            /\ total_value.kind # "ValueError"
            /\ files' = [files EXCEPT ![AnnotatedFile] = image]
            /\ created' = [created EXCEPT ![r] = @ \cup {AnnotatedFile}]
            /\ res' = [res EXCEPT ![r] = [total_coins |-> st.total_coins,
                                          coin_counts |-> st.coin_counts,
                                          total_value |-> total_value.h]]
            /\ upload' = [upload EXCEPT ![r] = image]
            /\ pc' = [pc EXCEPT ![r] = "send_photo"]
            /\ UNCHANGED err
  /\ UNCHANGED <<caption, dets, custom_value, outbox, crash>>

\* Line 75: await context.bot.send_photo(...).
SendPhoto(r) ==
  /\ pc[r] = "send_photo"
  /\ \/ /\ Deliver(r, [type |-> "photo", image |-> upload[r]])
        /\ pc' = [pc EXCEPT ![r] = "reply"]
        /\ UNCHANGED err
     \/ /\ Caught(r, "send_photo")
        /\ UNCHANGED outbox
  /\ UNCHANGED <<caption, dets, custom_value, res, upload, crash, created, files>>

\* Lines 78-96: the summary is formatted and await reply_text sends it.
Reply(r) ==
  /\ pc[r] = "reply"
  /\ \/ /\ Deliver(r, Summary(r))
        /\ pc' = [pc EXCEPT ![r] = "done"]
        /\ UNCHANGED err
     \/ /\ Caught(r, "reply")
        /\ UNCHANGED outbox
  /\ UNCHANGED <<caption, dets, custom_value, res, upload, crash, created, files>>

\* Lines 98-102: the error is logged and await reply_text sends the notice.
Notice(r) ==
  /\ pc[r] = "notice"
  /\ \/ /\ Deliver(r, [type |-> "notice"])
        /\ pc' = [pc EXCEPT ![r] = "done"]
        /\ UNCHANGED crash
     \/ /\ Escapes(r, "notice")
        /\ UNCHANGED outbox
  /\ UNCHANGED <<caption, dets, custom_value, res, upload, err, created, files>>

Step(r) ==
  \/ Ack(r)
  \/ GetFile(r)
  \/ Warn(r)
  \/ Download(r)
  \/ Infer(r)
  \/ SendPhoto(r)
  \/ Reply(r)
  \/ Notice(r)

(***************************************************************************)
(* Spec: one update, handled alone                                         *)
(***************************************************************************)

Init ==
  /\ detections = <<>>
  /\ loc = DrawStart
  /\ dpc = "off"
  /\ InitHandlers

\* An update arrives while no handler has been started.
DispatchAlone ==
  /\ \A q \in Requests : pc[q] = "idle"
  /\ \E r \in Requests, c \in Captions, d \in DetLists : Dispatch(r, c, d)
  /\ UNCHANGED dvars

Next ==
  \/ DispatchAlone
  \/ \E r \in Requests : Step(r) /\ UNCHANGED dvars

Spec == Init /\ [][Next]_vars

(***************************************************************************)
(* SpecConc: two updates whose handlers interleave at their awaits         *)
(***************************************************************************)

ConcCaptions == {NoCaption, "abc"}
ConcDetLists == {<<DetA>>, <<DetFar, DetFar>>, <<DetBadClass>>}

DispatchConcurrent ==
  /\ \E r \in Requests, c \in ConcCaptions, d \in ConcDetLists : Dispatch(r, c, d)
  /\ UNCHANGED dvars

NextConc ==
  \/ DispatchConcurrent
  \/ \E r \in Requests : Step(r) /\ UNCHANGED dvars

SpecConc == Init /\ [][NextConc]_vars

(***************************************************************************)
(* Properties of draw_detections (checked under SpecDraw)                  *)
(***************************************************************************)

Range(s) == {s[i] : i \in DOMAIN s}

\* The IoU of two boxes is a number greater than 0.5, stated on the areas.
ExceedsHalf(b1, b2) ==
  LET iou == calculate_iou(b1, b2)
  IN  iou.exc = "" /\ iou.den > 0 /\ 2 * iou.num > iou.den

\* The IoU of a box with itself is 1.0.
SelfIouOne(b) ==
  LET iou == calculate_iou(b, b)
  IN  iou.exc = "" /\ iou.num = iou.den

\* C7: after any prefix of any detection list, no two boxes of detected_boxes
\* have an IoU greater than 0.5 with each other (the IoU of every accepted
\* pair is a number, in either order); and two identical detections (IoU 1.0)
\* leave exactly one box accepted, and one coin counted at the return.
C7_AcceptedPairwiseApart ==
  /\ \A i, j \in 1..Len(loc.detected_boxes) :
        i # j =>
          /\ calculate_iou(loc.detected_boxes[i], loc.detected_boxes[j]).exc = ""
          /\ ~ExceedsHalf(loc.detected_boxes[i], loc.detected_boxes[j])
  /\ (/\ dpc # "loop"
      /\ Len(detections) = 2
      /\ detections[1] = detections[2]
      /\ SelfIouOne(BoxOf(detections[1])))
       => /\ Len(loc.detected_boxes) = 1
          /\ dpc = "saved" => loc.total_coins = 1

\* C7 witness: two identical detections were processed and one was accepted.
C7_Witness ==
  /\ dpc = "saved"
  /\ detections = <<DetA, DetA>>
  /\ loc.detected_boxes = <<BoxOf(DetA)>>
  /\ loc.total_coins = 1

\* C8: deduplication is greedy first-seen-wins.  The accepted list is a
\* subsequence of the input in input order; a detection whose overlap check
\* has finished is accepted if and only if its IoU with every previously
\* accepted box is at most 0.5 (rejected detections and confidence play no
\* part); and for a chain A, B, C with IoU(A,B) > 0.5, IoU(B,C) > 0.5 and
\* IoU(A,C) at most 0.5 (in particular 0), A and C are accepted and B is not.
C8_FirstSeenWins ==
  /\ Len(loc.kept) = Len(loc.detected_boxes)
  /\ \A k \in 1..Len(loc.kept) :
        /\ loc.kept[k] \in 1..loc.seen
        /\ loc.detected_boxes[k] = BoxOf(detections[loc.kept[k]])
        /\ k > 1 => loc.kept[k - 1] < loc.kept[k]
  /\ \A i \in 1..loc.seen :
        (i \in Range(loc.kept)) <=>
          (\A j \in Range(loc.kept) :
             j < i => ~ExceedsHalf(BoxOf(detections[i]), BoxOf(detections[j])))
  /\ (/\ dpc = "saved"
      /\ Len(detections) = 3
      /\ ExceedsHalf(BoxOf(detections[1]), BoxOf(detections[2]))
      /\ ExceedsHalf(BoxOf(detections[2]), BoxOf(detections[3]))
      /\ ~ExceedsHalf(BoxOf(detections[1]), BoxOf(detections[3])))
       => loc.kept = <<1, 3>>

\* C8 witness: a chain was processed; the middle detection was rejected and
\* did not suppress the third, which overlaps it by more than half.
C8_Witness ==
  /\ dpc = "saved"
  /\ detections = <<DetA, DetMid, DetEnd>>
  /\ ExceedsHalf(BoxOf(DetA), BoxOf(DetMid))
  /\ ExceedsHalf(BoxOf(DetMid), BoxOf(DetEnd))
  /\ loc.kept = <<1, 3>>

\* C9: at every iteration boundary of the loop and at the return, the counts
\* of coin_counts sum to total_coins, which is len(detected_boxes); with zero
\* detections the result is total_coins = 0, an empty coin_counts and
\* nothing drawn.
C9_CountsAgree ==
  /\ loc.exc = "" =>
        /\ SumCounts(loc.coin_counts) = loc.total_coins
        /\ loc.total_coins = Len(loc.detected_boxes)
  /\ (dpc = "saved" /\ detections = <<>>) =>
        /\ loc.total_coins = 0
        /\ DOMAIN loc.coin_counts = {}
        /\ loc.drawn = <<>>

\* C9 witness: a list with a duplicate and two coins of one denomination
\* was processed to the return.
C9_Witness ==
  /\ dpc = "saved"
  /\ detections = <<DetA, DetDup, DetEnd>>
  /\ loc.total_coins = 2
  /\ DOMAIN loc.coin_counts = {100}
  /\ loc.coin_counts[100] = 2

(***************************************************************************)
(* Properties of handle_photo                                              *)
(***************************************************************************)

\* The messages of one type delivered for update r.
Sent(r, type) == {i \in DOMAIN outbox[r] : outbox[r][i].type = type}
Summaries(r) == {outbox[r][i] : i \in Sent(r, "summary")}
Photos(r) == {outbox[r][i] : i \in Sent(r, "photo")}

\* The specification's scenario: two near-coincident "100" detections and
\* one "200" detection.
Scenario == <<DetA, DetDup, DetFar>>

\* C1: the total_value handle_photo reports is the sum over coin_counts of
\* denomination value times count (the accepted coins only); in the scenario
\* the reported total is 3.00.
C1_TotalFromAcceptedCoins ==
  \A r \in Requests : \A m \in Summaries(r) :
    /\ m.total_value = SumValues(m.coin_counts)
    /\ dets[r] = Scenario => m.total_value = 300

\* A detection record whose class does not parse as a number, or whose width
\* or height is not positive.
Malformed(d) ==
  \/ PyFloat(d.class).kind = "ValueError"
  \/ d.width <= 0
  \/ d.height <= 0

WellFormed(d) == ~Malformed(d)

\* C2: a malformed detection record is skipped on its own: it never makes
\* the request end with the failure notice, it is neither counted nor drawn,
\* and the other records of the batch are processed as if it were absent.
C2_MalformedRecordSkipped ==
  \A r \in Requests :
    LET clean == draw_detections(SelectSeq(dets[r], WellFormed))
    IN  /\ err[r] \notin {"ValueError", "ZeroDivisionError"}
        /\ \A m \in Summaries(r) :
              /\ m.total_coins = clean.total_coins
              /\ m.coin_counts = clean.coin_counts
        /\ \A m \in Photos(r) :
              Len(m.image.drawn) = Len(clean.drawn)

\* C3: reporting is all-or-nothing: when a step from the inference call to
\* the final text reply has failed, neither the annotated image nor the
\* summary has been delivered for that request.
C3_AllOrNothing ==
  \A r \in Requests :
    err[r] # "" => Sent(r, "photo") = {} /\ Sent(r, "summary") = {}

\* float(caption.strip()) of the caption of update r, ValueError when there
\* is no caption.
DeclaredValue(r) ==
  IF caption[r] = NoCaption THEN ValueError ELSE PyFloat(Strip(caption[r]))

\* C4: an estimate is reported only when the caption parses as a finite
\* number v (never for a caption that parses to infinity or NaN), and a
\* caption that parses as a finite v gets the estimate total_coins * v.  The
\* case v = 0, which the specification leaves open, is not constrained here.
C4_EstimateIffFinite ==
  \A r \in Requests : \A m \in Summaries(r) :
    /\ m.estimate # None => DeclaredValue(r).kind = "fin"
    /\ (DeclaredValue(r).kind = "fin" /\ DeclaredValue(r).h # 0)
         => m.estimate = Fin(m.total_coins * DeclaredValue(r).h)

\* C5: each of two interleaved requests replies with the annotated image of
\* its own photo and the counts derived from its own photo.
C5_OwnPhotoOnly ==
  \A r \in Requests :
    /\ \A m \in Photos(r) : m.image.src = r
    /\ \A m \in Summaries(r) :
          /\ m.total_coins = draw_detections(dets[r]).total_coins
          /\ m.coin_counts = draw_detections(dets[r]).coin_counts

\* C6: once a request has finished, on any exit path, the temporary files it
\* created no longer exist.
C6_TempFilesReleased ==
  \A r \in Requests :
    pc[r] = "done" => \A f \in created[r] : files[f] = Absent

\* The caption of update r is present and float() rejects it.
BadCaption(r) ==
  /\ caption[r] \notin {NoCaption, ""}
  /\ PyFloat(Strip(caption[r])).kind = "ValueError"

\* C10: a caption that is present and does not parse as a number does not
\* abort the request: the warning is sent (second message, after the
\* acknowledgement), custom_value stays None, and a request none of whose
\* later steps failed ends with the annotated image and a summary that has
\* the detector-derived total, the coin count and the per-denomination
\* counts, and no estimate.
C10_BadCaptionWarnsAndContinues ==
  \A r \in Requests :
    BadCaption(r) =>
      /\ custom_value[r] = None
      /\ (/\ pc[r] \notin {"idle", "ack", "get_file", "warn"}
          /\ crash[r] \notin {"ack", "get_file", "warn"})
           => /\ Len(outbox[r]) >= 2
              /\ outbox[r][1].type = "ack"
              /\ outbox[r][2].type = "warning"
      /\ (pc[r] = "done" /\ crash[r] = "" /\ err[r] = "")
           => /\ Len(outbox[r]) = 4
              /\ outbox[r][3].type = "photo"
              /\ outbox[r][4] =
                   [type |-> "summary",
                    total_value |-> TotalValue(dets[r]).h,
                    total_coins |-> draw_detections(dets[r]).total_coins,
                    coin_counts |-> draw_detections(dets[r]).coin_counts,
                    estimate |-> None]

\* C10 witness: a request captioned "abc" has finished with the warning, the
\* annotated image and a summary of two coins without estimate.
C10_Witness ==
  \E r \in Requests :
    /\ caption[r] = "abc"
    /\ dets[r] = Scenario
    /\ pc[r] = "done"
    /\ Len(outbox[r]) = 4
    /\ outbox[r][2].type = "warning"
    /\ outbox[r][4].type = "summary"
    /\ outbox[r][4].total_coins = 2
    /\ outbox[r][4].estimate = None

====
